---- MODULE Spec2Model ----
(***************************************************************************)
(* The ImageUpload component of frontend/src/home.js as a state machine.   *)
(*                                                                         *)
(* The component's state is its six useState cells.  Around them sit the   *)
(* parts of the browser the handlers talk to: the object URLs made by      *)
(* URL.createObjectURL, and the axios requests that have been issued and   *)
(* have not settled yet.  One step of the machine is one browser task:     *)
(* an event handler (or the continuation of analyzeImage after its await)  *)
(* runs to completion, React renders the batched updates, and the effect   *)
(* of lines 69-104 runs when one of its dependencies changed.              *)
(***************************************************************************)
EXTENDS Integers, Sequences, FiniteSets, TLC

(***************************************************************************)
(* Bounds of the model.                                                    *)
(***************************************************************************)
\* accepted selections (object URLs created) in one session
MaxSelections == 3
\* files carried by one change / drop event
MaxFiles == 2

(***************************************************************************)
(* JavaScript values.  A nullable cell holds <<>> for null and <<v>> for   *)
(* the value v.  undefined is what reading a missing property gives.       *)
(***************************************************************************)
NULL == << >>
UNDEFINED == "undefined"

\* String.prototype.startsWith on strings held as sequences of characters.
startsWithNoSlash(t, prefix) ==
    /\ Len(t) >= Len(prefix) - 1
    /\ SubSeq(t, 1, Len(prefix) - 1) = SubSeq(prefix, 1, Len(prefix) - 1)

startsWith(t, prefix) ==
    /\ Len(t) >= Len(prefix)
    /\ SubSeq(t, 1, Len(prefix)) = prefix

\* 'image/' of lines 19 and 47
ImagePrefix == <<"i", "m", "a", "g", "e", "/">>

\* The File objects a user can pick or drop: a name and a declared type.
Files ==
    { [name |-> "leafA.png",  type |-> ImagePrefix \o <<"p", "n", "g">>],
      [name |-> "leafB.jpg",  type |-> ImagePrefix \o <<"j", "p", "g">>],
      [name |-> "notes.txt",  type |-> <<"t", "e", "x", "t", "/", "x">>],
      [name |-> "image",      type |-> <<"i", "m", "a", "g", "e">>] }

\* A FileList: e.target.files or e.dataTransfer.files, possibly empty; one
\* event does not carry the same file twice.
FileLists ==
    UNION { { l \in [1..n -> Files] : \A i, j \in 1..n : l[i] = l[j] => i = j } :
            n \in 0..MaxFiles }

(***************************************************************************)
(* What the axios call of lines 80-87 can come back with: no response at   *)
(* all (network error, timeout), or a response with a status and a body.   *)
(* A body is a JSON object (with or without a prediction member), the      *)
(* JSON value null, or text that is not JSON (axios then hands the text    *)
(* over as response.data).  The code reads the body of a 200 response      *)
(* only, so the responses with another status come with one body.          *)
(***************************************************************************)
\* line 89
StatusOK == 200

Predictions == {"Healthy", "Late Blight"}

Bodies ==
    { [kind |-> "object", prediction |-> <<p>>] : p \in Predictions }
    \cup { [kind |-> "object", prediction |-> NULL],
           [kind |-> "text",   prediction |-> NULL],
           [kind |-> "null",   prediction |-> NULL] }

Statuses == {200, 204, 500}

NoBody == [kind |-> "none", prediction |-> NULL]

NetworkError == [transport |-> "error", status |-> 0, body |-> NoBody]

Outcomes ==
    {NetworkError}
    \cup { r \in [transport : {"response"}, status : Statuses, body : Bodies] :
              r.status = StatusOK \/ r.body.kind = "text" }

NoOutcome == [transport |-> "none", status |-> 0, body |-> NoBody]

\* line 92
FixedConfidence == 98
\* line 97
ErrorMessage ==
    "We couldn't analyze this image. Please try with another photo of a potato leaf."

\* the event types handleDrag is bound to (lines 132-134)
DragTypes == {"dragenter", "dragover", "dragleave"}

VARIABLES
    selectedFile,   \* useState, line 6
    preview,        \* useState, line 7: NULL or <<object URL>>
    results,        \* useState, line 8
    isAnalyzing,    \* useState, line 9
    error,          \* useState, line 10
    dragActive,     \* useState, line 11
    created,        \* the object URLs URL.createObjectURL has handed out
    revoked,        \* the object URLs released with URL.revokeObjectURL
    requests,       \* the analyzeImage calls suspended at their await
    issued,         \* how many axios requests have been sent
    imageSelections,\* history: change/drop events whose first file is an image
    resultsBy,      \* history: the preview of the call that wrote results
    errorBy,        \* history: the preview of the call that wrote error
    last            \* history: the event handled by the last step

vars == <<selectedFile, preview, results, isAnalyzing, error, dragActive,
          created, revoked, requests, issued, imageSelections,
          resultsBy, errorBy, last>>

\* The component and its surroundings as one value the handlers transform.
World ==
    [selectedFile |-> selectedFile, preview |-> preview, results |-> results,
     isAnalyzing |-> isAnalyzing, error |-> error, dragActive |-> dragActive,
     created |-> created, revoked |-> revoked, requests |-> requests,
     issued |-> issued, resultsBy |-> resultsBy, errorBy |-> errorBy]

Commit(w) ==
    /\ selectedFile' = w.selectedFile
    /\ preview' = w.preview
    /\ results' = w.results
    /\ isAnalyzing' = w.isAnalyzing
    /\ error' = w.error
    /\ dragActive' = w.dragActive
    /\ created' = w.created
    /\ revoked' = w.revoked
    /\ requests' = w.requests
    /\ issued' = w.issued
    /\ resultsBy' = w.resultsBy
    /\ errorBy' = w.errorBy

(***************************************************************************)
(* History of the session, kept beside the program's state so that the     *)
(* properties can speak of it.  An event is described by what the user     *)
(* did, not by what the handlers made of it.                               *)
(***************************************************************************)
\* The first file of the list exists and its type is "image/" plus a rest.
FirstIsImage(files) ==
    /\ Len(files) >= 1
    /\ \E n \in 0..Len(files[1].type) :
          files[1].type = ImagePrefix \o SubSeq(files[1].type, n + 1, Len(files[1].type))

Event(op, files, url, outcome) ==
    [op |-> op, files |-> files, preview |-> url, outcome |-> outcome]

(***************************************************************************)
(* Lines 53-58 and 61-66.                                                  *)
(***************************************************************************)
\* URL.createObjectURL: a URL no earlier call has returned.
createObjectURL(w) == Cardinality(w.created) + 1

processSelectedFileKeepingResults(w, file) ==
    [w EXCEPT !.selectedFile = <<file>>,
              !.error = NULL,
              !.errorBy = NULL,
              !.preview = <<createObjectURL(w)>>,
              !.created = @ \cup {createObjectURL(w)}]

processSelectedFile(w, file) ==
    [w EXCEPT !.selectedFile = <<file>>,
              !.error = NULL,
              !.errorBy = NULL,
              !.results = NULL,
              !.resultsBy = NULL,
              !.preview = <<createObjectURL(w)>>,
              !.created = @ \cup {createObjectURL(w)}]

resetAnalysisKeepingError(w) ==
    [w EXCEPT !.selectedFile = NULL,
              !.preview = NULL,
              !.results = NULL,
              !.resultsBy = NULL]

resetAnalysisKeepingPreview(w) ==
    [w EXCEPT !.selectedFile = NULL,
              !.results = NULL,
              !.resultsBy = NULL,
              !.error = NULL,
              !.errorBy = NULL]

resetAnalysis(w) ==
    [w EXCEPT !.selectedFile = NULL,
              !.preview = NULL,
              !.results = NULL,
              !.resultsBy = NULL,
              !.error = NULL,
              !.errorBy = NULL]

(***************************************************************************)
(* Lines 17-22, 30-38 and 40-51.                                           *)
(***************************************************************************)
handleFileChange(w, files) ==
    IF Len(files) >= 1 /\ startsWith(files[1].type, ImagePrefix)
    THEN processSelectedFile(w, files[1])
    ELSE w

handleDrag(w, type) ==
    IF type \in {"dragenter", "dragover"}
    THEN [w EXCEPT !.dragActive = TRUE]
    ELSE IF type = "dragleave"
         THEN [w EXCEPT !.dragActive = FALSE]
         ELSE w

handleDropKeepsActive(w, files) ==
    IF Len(files) >= 1 /\ startsWith(files[1].type, ImagePrefix)
    THEN processSelectedFile([w EXCEPT !.dragActive = FALSE], files[1])
    ELSE w

handleDropFirstImage(w, files) ==
    LET w1 == [w EXCEPT !.dragActive = FALSE]
        images == {i \in 1..Len(files) : startsWith(files[i].type, ImagePrefix)}
    IN  IF images # {}
        THEN processSelectedFile(w1, files[CHOOSE i \in images : \A j \in images : i <= j])
        ELSE w1

handleDrop(w, files) ==
    LET w1 == [w EXCEPT !.dragActive = FALSE]
    IN  IF Len(files) >= 1 /\ startsWith(files[1].type, ImagePrefix)
        THEN processSelectedFile(w1, files[1])
        ELSE w1

(***************************************************************************)
(* Lines 69-104.  analyzeImage runs in two pieces: up to the await of the  *)
(* axios call, and from the settling of that call to the end.  The call    *)
(* keeps the selectedFile and preview of the render that started it; the   *)
(* form it posts has one part, selectedFile under the name "file".         *)
(***************************************************************************)
analyzeImage(w) ==
    [w EXCEPT !.isAnalyzing = TRUE,
              !.error = NULL,
              !.errorBy = NULL,
              !.requests = @ \cup {[field |-> "file",
                                    file |-> w.selectedFile,
                                    preview |-> w.preview[1]]},
              !.issued = @ + 1]

\* React runs the effect after a render in which a dependency changed.
depsChangedAlways(old, new) == TRUE

depsChanged(old, new) ==
    \/ old.preview # new.preview
    \/ old.selectedFile # new.selectedFile

useEffectStaleClosure(old, new) ==
    IF depsChanged(old, new) /\ new.preview # NULL
    THEN [analyzeImage(new) EXCEPT
            !.requests = new.requests \cup {[field |-> "file",
                                             file |-> old.selectedFile,
                                             preview |-> new.preview[1]]}]
    ELSE new

useEffect(old, new) ==
    IF depsChanged(old, new) /\ new.preview # NULL
    THEN analyzeImage(new)
    ELSE new

\* axios resolves on a 2xx response and rejects on anything else.
axiosResolves(o) ==
    o.transport = "response" /\ o.status >= 200 /\ o.status < 300

\* response.data.prediction: reading a property of null throws.
readThrows(o) == o.body.kind = "null"

prediction(o) ==
    IF o.body.kind = "object" /\ o.body.prediction # NULL
    THEN o.body.prediction[1]
    ELSE UNDEFINED

\* the try block after the await (lines 89-94)
tryBlockWrongField(w, req, o) ==
    IF o.status = StatusOK /\ ~readThrows(o)
    THEN [w EXCEPT !.results = <<[condition |-> UNDEFINED,
                                  confidence |-> FixedConfidence]>>,
                   !.resultsBy = <<req.preview>>]
    ELSE w

tryBlock(w, req, o) ==
    IF o.status = StatusOK /\ ~readThrows(o)
    THEN [w EXCEPT !.results = <<[condition |-> prediction(o),
                                  confidence |-> FixedConfidence]>>,
                   !.resultsBy = <<req.preview>>]
    ELSE w

\* whether the try block ends in the catch clause
thrown(o) == ~axiosResolves(o) \/ (o.status = StatusOK /\ readThrows(o))

\* lines 95-97
catchBlock(w, req) ==
    [w EXCEPT !.error = <<ErrorMessage>>, !.errorBy = <<req.preview>>]

finallyBlockKeepsFlag(w) == w

\* lines 98-100
finallyBlock(w) == [w EXCEPT !.isAnalyzing = FALSE]

analyzeImageSettled(w, req, o) ==
    LET w1 == IF axiosResolves(o) THEN tryBlock(w, req, o) ELSE w
        w2 == IF thrown(o) THEN catchBlock(w1, req) ELSE w1
    IN  [finallyBlock(w2) EXCEPT !.requests = @ \ {req}]

(***************************************************************************)
(* The presenter: lines 107-110 and the results block of lines 188-235.    *)
(***************************************************************************)
getConditionClassMissingIsNone(w) ==
    IF w.results = NULL \/ w.results[1].condition = UNDEFINED
    THEN ""
    ELSE IF w.results[1].condition = "Healthy" THEN "healthy" ELSE "disease"

getConditionClass(w) ==
    IF w.results = NULL
    THEN ""
    ELSE IF w.results[1].condition = "Healthy" THEN "healthy" ELSE "disease"

\* what the results block renders: nothing without results (line 188), the
\* block styled by getConditionClass (line 189) with the paragraph and the
\* list that the test of line 202 picks
resultsBlock(w) ==
    IF w.results = NULL
    THEN [shown |-> FALSE, class |-> "", guidance |-> "none"]
    ELSE [shown |-> TRUE,
          class |-> getConditionClass(w),
          guidance |-> IF w.results[1].condition # "Healthy"
                       THEN "Recommended Action"
                       ELSE "Maintenance Tips"]

(***************************************************************************)
(* The state after the component has mounted: every cell holds its         *)
(* initial value, and the effect has run once and returned at line 70.     *)
(***************************************************************************)
Init ==
    /\ selectedFile = NULL
    /\ preview = NULL
    /\ results = NULL
    /\ isAnalyzing = FALSE
    /\ error = NULL
    /\ dragActive = FALSE
    /\ created = {}
    /\ revoked = {}
    /\ requests = {}
    /\ issued = 0
    /\ imageSelections = 0
    /\ resultsBy = NULL
    /\ errorBy = NULL
    /\ last = Event("mount", << >>, 0, NoOutcome)

(***************************************************************************)
(* The steps.  The file input exists only while there is no preview        *)
(* (lines 139-157); the two reset buttons exist only while an error        *)
(* (line 184) or a result (line 230) is shown; the drop target is always   *)
(* there (lines 130-137).                                                  *)
(***************************************************************************)
FileChange ==
    /\ preview = NULL
    /\ \E files \in FileLists :
          LET w == useEffect(World, handleFileChange(World, files))
          IN  /\ Cardinality(w.created) <= MaxSelections
              /\ Commit(w)
              /\ imageSelections' = imageSelections + (IF FirstIsImage(files) THEN 1 ELSE 0)
              /\ last' = Event("change", files, 0, NoOutcome)

Drop ==
    \E files \in FileLists :
        LET w == useEffect(World, handleDrop(World, files))
        IN  /\ Cardinality(w.created) <= MaxSelections
            /\ Commit(w)
            /\ imageSelections' = imageSelections + (IF FirstIsImage(files) THEN 1 ELSE 0)
            /\ last' = Event("drop", files, 0, NoOutcome)

Drag ==
    \E type \in DragTypes :
        /\ Commit(useEffect(World, handleDrag(World, type)))
        /\ last' = Event(type, << >>, 0, NoOutcome)
        /\ UNCHANGED imageSelections

Reset ==
    /\ error # NULL \/ results # NULL
    /\ Commit(useEffect(World, resetAnalysis(World)))
    /\ last' = Event("reset", << >>, 0, NoOutcome)
    /\ UNCHANGED imageSelections

Settle ==
    \E req \in requests, o \in Outcomes :
        /\ Commit(useEffect(World, analyzeImageSettled(World, req, o)))
        /\ last' = Event("settle", << >>, req.preview, o)
        /\ UNCHANGED imageSelections

Next == FileChange \/ Drop \/ Drag \/ Reset \/ Settle

Spec == Init /\ [][Next]_vars

(***************************************************************************)
(* Properties.                                                             *)
(***************************************************************************)
\* The outcome the interface contract calls a success: HTTP 200 with a
\* parseable body that has a prediction member.
IsSuccess(o) ==
    /\ o.transport = "response"
    /\ o.status = 200
    /\ o.body.kind = "object"
    /\ o.body.prediction # NULL

\* The last step handled a change or drop event that is to be rejected.
RejectedSelection(e) ==
    e.op \in {"change", "drop"} /\ ~FirstIsImage(e.files)

\* C1: the outcome of a request that does not belong to the current
\* selection never changes results or error: a step in which a request
\* settles whose preview is not the current preview leaves both as they are.
C1_StaleOutcomeDiscarded ==
    [][(last'.op = "settle" /\ preview # <<last'.preview>>)
          => (results' = results /\ error' = error)]_vars

\* C2: one request per accepted selection: in every reachable state the
\* number of requests issued equals the number of change and drop events
\* whose first file is image-typed.
C2_OneRequestPerAcceptedSelection == issued = imageSelections

\* C2 witness: a second image was dropped while the first request was still
\* pending, and both requests are now in flight.
C2_Witness ==
    /\ last.op = "drop"
    /\ FirstIsImage(last.files)
    /\ imageSelections = 2
    /\ Cardinality(requests) = 2

\* C3: at most one of Analyzing, Succeeded, Failed: results and error are
\* never both non-null, and the in-flight flag is never set together with a
\* non-null result or error.
C3_AtMostOneUIState ==
    /\ ~(results # NULL /\ error # NULL)
    /\ ~(isAnalyzing /\ (results # NULL \/ error # NULL))

\* The non-success outcomes C4 lists: a 500 response, a 200 response whose
\* body is malformed or lacks prediction, a network error.
C4_ListedFailure(o) ==
    \/ o.transport = "error"
    \/ o.transport = "response" /\ o.status = 500
    \/ o.transport = "response" /\ o.status = 200 /\ ~IsSuccess(o)

\* C4: when the request of a single selection settles with one of the
\* listed non-success outcomes, the state is Failed: error is the fixed
\* message, results is null and the in-flight flag is false.
C4_NonSuccessIsFailed ==
    (last.op = "settle" /\ issued = 1 /\ C4_ListedFailure(last.outcome))
        => (error = <<ErrorMessage>> /\ results = NULL /\ ~isAnalyzing)

\* C5: a selection whose request has settled is Succeeded or Failed: the
\* state never has a file selected, no request pending and neither a result
\* nor an error.
C5_SettledIsTerminal ==
    (selectedFile # NULL /\ requests = {})
        => (results # NULL \/ error # NULL)

\* C6: a change or drop event whose file list is empty or whose first file
\* is not image-typed leaves selectedFile, preview, results, error and the
\* in-flight flag unchanged, creates no preview and issues no request.
C6_RejectedSelectionLeavesState ==
    [][RejectedSelection(last')
          => /\ selectedFile' = selectedFile
             /\ preview' = preview
             /\ results' = results
             /\ error' = error
             /\ isAnalyzing' = isAnalyzing
             /\ created' = created
             /\ issued' = issued
             /\ requests' = requests]_vars

\* C6 witness: a non-image file was dropped while a request was in flight.
C6_Witness ==
    /\ RejectedSelection(last)
    /\ last.op = "drop"
    /\ Len(last.files) >= 1
    /\ isAnalyzing
    /\ requests # {}

\* C7: when the request of a single selection resolves with status 200 and
\* body {prediction: p}, the state is Succeeded: results is
\* {condition: p, confidence: 98}, error is null, the in-flight flag false.
C7_SuccessYieldsResult ==
    (last.op = "settle" /\ issued = 1 /\ IsSuccess(last.outcome))
        => /\ results = <<[condition |-> last.outcome.body.prediction[1],
                           confidence |-> 98]>>
           /\ error = NULL
           /\ ~isAnalyzing

\* C7 witness: the single request came back 200 {prediction: "Late Blight"}.
C7_Witness ==
    /\ last.op = "settle"
    /\ issued = 1
    /\ IsSuccess(last.outcome)
    /\ last.outcome.body.prediction = <<"Late Blight">>

\* C8: immediately after reset the state is the initial one: selectedFile,
\* preview, results and error are null and the in-flight flag is false.
C8_ResetReturnsToIdle ==
    last.op = "reset"
        => /\ selectedFile = NULL
           /\ preview = NULL
           /\ results = NULL
           /\ error = NULL
           /\ ~isAnalyzing

\* C8 witness: reset was called after two selections, with the request of
\* one of them still pending.
C8_Witness ==
    /\ last.op = "reset"
    /\ issued = 2
    /\ requests # {}

\* C9: no preview handle leaks: every object URL that was created is the
\* current preview or has been released.
C9_NoLeakedPreview ==
    \A u \in created : preview = <<u>> \/ u \in revoked

\* C10: no result or error survives a reset or a new selection: if results
\* or error is non-null then a file is selected, a preview exists, and the
\* result or error was produced by the request of that preview.
C10_OutcomeBelongsToSelection ==
    /\ results # NULL
          => (selectedFile # NULL /\ preview # NULL /\ resultsBy = preview)
    /\ error # NULL
          => (selectedFile # NULL /\ preview # NULL /\ errorBy = preview)

\* The last step handled a change or drop event that is to be accepted.
AcceptedSelection(e) ==
    e.op \in {"change", "drop"} /\ FirstIsImage(e.files)

\* C11: a valid selection made in any state moves to Analyzing for the new
\* file at once: right after it the selected file is the event's first file,
\* the preview is the object URL just created, results and error are null,
\* the in-flight flag is set and a request for that file and preview is
\* pending.
C11_SelectionStartsAnalyzing ==
    AcceptedSelection(last)
        => /\ selectedFile = <<last.files[1]>>
           /\ preview = <<Cardinality(created)>>
           /\ results = NULL
           /\ error = NULL
           /\ isAnalyzing
           /\ \E r \in requests : r.preview = preview[1] /\ r.file = selectedFile

\* C11 witness: an image was dropped after the request of the first
\* selection had settled; only the new request is pending.
C11_Witness ==
    /\ AcceptedSelection(last)
    /\ last.op = "drop"
    /\ imageSelections = 2
    /\ Cardinality(requests) = 1
    /\ results = NULL

\* C12: the presenter picks its branch by equality of results.condition
\* with "Healthy" alone: the healthy branch (class and maintenance tips) if
\* and only if the condition is "Healthy", the disease branch with the
\* generic guidance for every other condition, a missing one included, and
\* no branch when there are no results.
C12_BranchByEqualityWithHealthy ==
    LET b == resultsBlock(World)
    IN  /\ results = NULL => (~b.shown /\ b.class = "" /\ b.guidance = "none")
        /\ results # NULL =>
              /\ b.shown
              /\ results[1].condition = "Healthy"
                    => (b.class = "healthy" /\ b.guidance = "Maintenance Tips")
              /\ results[1].condition # "Healthy"
                    => (b.class = "disease" /\ b.guidance = "Recommended Action")

\* C12 witness: results whose condition is missing (the response had no
\* prediction member) are shown in the disease branch.
C12_Witness ==
    /\ results # NULL
    /\ results[1].condition = UNDEFINED
    /\ resultsBlock(World).class = "disease"

\* Succeeded or Failed: a result or an error is shown and nothing is marked
\* as in flight.
TerminalState == ~isAnalyzing /\ (results # NULL \/ error # NULL)

\* C13: terminal states are stable and nothing is retried: from Succeeded or
\* Failed, every step other than a reset or a new valid selection keeps
\* results and error as they are and issues no request.
C13_TerminalStateIsStable ==
    [][(TerminalState /\ last'.op # "reset" /\ ~AcceptedSelection(last'))
          => (results' = results /\ error' = error /\ issued' = issued)]_vars

\* C14: the preview is one-to-one with the selected file: selectedFile is
\* null exactly when preview is null, initially and after every step; the
\* preview changes only to null or to an object URL that did not exist
\* before, created in the step that selects the event's first file; and the
\* selected file never changes without the preview changing with it.
C14_PreviewPairedWithFile ==
    /\ (selectedFile = NULL) <=> (preview = NULL)
    /\ [][/\ (selectedFile' = NULL) <=> (preview' = NULL)
          /\ preview' # preview
                => \/ preview' = NULL
                   \/ /\ preview'[1] \notin created
                      /\ preview'[1] \in created'
                      /\ AcceptedSelection(last')
                      /\ selectedFile' = <<last'.files[1]>>
          /\ selectedFile' # selectedFile => preview' # preview]_vars

\* C14 witness: the second selection's file and preview are current after a
\* request has settled.
C14_Witness ==
    /\ last.op = "settle"
    /\ preview = <<2>>
    /\ selectedFile # NULL
    /\ created = {1, 2}

\* The cells of the analysis are the same before and after the step.
AnalysisUnchanged ==
    /\ selectedFile' = selectedFile
    /\ preview' = preview
    /\ results' = results
    /\ error' = error
    /\ isAnalyzing' = isAnalyzing

\* C15: the drag-active flag follows the drag events alone: it is true
\* after drag-enter and drag-over, false after drag-leave and after every
\* drop, accepted or not, and unchanged by every other step; drag-enter,
\* drag-over and drag-leave leave the analysis cells unchanged.
C15_DragFlagFollowsDragEvents ==
    [][/\ last'.op \in {"dragenter", "dragover"} => dragActive'
       /\ last'.op \in {"dragleave", "drop"} => ~dragActive'
       /\ last'.op \in {"change", "reset", "settle"} => dragActive' = dragActive
       /\ last'.op \in DragTypes => AnalysisUnchanged]_vars

\* C15 witness: a drop that was rejected, with a request in flight, has
\* left the flag off.
C15_Witness ==
    /\ last.op = "drop"
    /\ ~FirstIsImage(last.files)
    /\ ~dragActive
    /\ isAnalyzing

\* C16: the first file of a drop of several files decides alone: if it is
\* image-typed it becomes the selected file and one preview and one request
\* are made for it; if it is not, the drop changes nothing of the analysis,
\* creates no preview and issues no request, whatever the later files are.
C16_FirstDroppedFileDecides ==
    [][(last'.op = "drop" /\ Len(last'.files) >= 2)
          => IF FirstIsImage(last'.files)
             THEN /\ selectedFile' = <<last'.files[1]>>
                  /\ Cardinality(created') = Cardinality(created) + 1
                  /\ issued' = issued + 1
                  /\ \A r \in requests' \ requests : r.file = <<last'.files[1]>>
             ELSE /\ AnalysisUnchanged
                  /\ created' = created
                  /\ issued' = issued
                  /\ requests' = requests]_vars

\* C16 witness: a drop whose first file is not an image and whose second
\* file is one was rejected while a request was in flight.
C16_Witness ==
    /\ last.op = "drop"
    /\ Len(last.files) = 2
    /\ ~FirstIsImage(last.files)
    /\ FirstIsImage(Tail(last.files))
    /\ selectedFile # NULL
    /\ selectedFile # <<last.files[2]>>

\* The request issued for the current selection has not settled yet.
CurrentRequestPending ==
    preview # NULL /\ \E r \in requests : r.preview = preview[1]

\* C17: the in-flight flag tracks the request of the current selection:
\* isAnalyzing is true exactly when that request is still pending.
C17_FlagTracksCurrentRequest == isAnalyzing <=> CurrentRequestPending

\* C18: the request of a selection carries that selection's file: a request
\* is issued only by an accepted selection, one at a time, and it uploads
\* the event's first file under the field name "file"; no pending request
\* carries a null file.
C18_RequestCarriesSelectedFile ==
    [][/\ issued' # issued
             => /\ AcceptedSelection(last')
                /\ issued' = issued + 1
                /\ \E r \in requests' :
                      /\ r \notin requests
                      /\ requests' = requests \cup {r}
                      /\ r.field = "file"
                      /\ r.file = <<last'.files[1]>>
       /\ \A r \in requests' : r.file # NULL /\ r.field = "file"]_vars

\* C18 witness: two requests are pending, each with the file of its own
\* selection, and the current selection is the later one.
C18_Witness ==
    /\ Cardinality(requests) = 2
    /\ \E r1, r2 \in requests :
          /\ r1.preview < r2.preview
          /\ r1.file # r2.file
          /\ r2.file = selectedFile

\* C19: the system quiesces: whenever every issued request has settled, the
\* in-flight flag is false; it is never left true with no request pending.
C19_QuiescentFlagIsOff == requests = {} => ~isAnalyzing

\* C19 witness: two overlapping requests have both settled, the flag is off.
C19_Witness ==
    /\ last.op = "settle"
    /\ issued = 2
    /\ created = {1, 2}
    /\ preview = <<2>>
    /\ requests = {}
    /\ ~isAnalyzing

====
